---------------------------- MODULE Spec2Model ----------------------------
(***************************************************************************)
(* A model of github.com/ecnepsnai/cron: the pattern validator             *)
(* (Job.Validate), the pattern compiler (getRealPattern), the time matcher *)
(* (patternDoesMatch, isItTime) and the scheduler (New, ForceStart,        *)
(* StopSoon, runJob).                                                      *)
(*                                                                         *)
(* A Go string is a sequence of one-character strings, so that Split,      *)
(* ContainsRune, Atoi, ToUpper and the regular expression are computed on  *)
(* the text as the code computes them.                                     *)
(***************************************************************************)
EXTENDS Integers, Sequences, FiniteSets, TLC

-----------------------------------------------------------------------------
(* Text: the standard-library calls the code makes.                        *)

DigitChars == <<"0", "1", "2", "3", "4", "5", "6", "7", "8", "9">>

LowerChars == <<"a", "b", "c", "d", "e", "f", "g", "h", "i", "j", "k", "l", "m",
                "n", "o", "p", "q", "r", "s", "t", "u", "v", "w", "x", "y", "z">>

UpperChars == <<"A", "B", "C", "D", "E", "F", "G", "H", "I", "J", "K", "L", "M",
                "N", "O", "P", "Q", "R", "S", "T", "U", "V", "W", "X", "Y", "Z">>

IsDigit(c) == \E i \in 1..Len(DigitChars) : DigitChars[i] = c

DigitVal(c) == (CHOOSE i \in 1..Len(DigitChars) : DigitChars[i] = c) - 1

IsUpper(c) == \E i \in 1..Len(UpperChars) : UpperChars[i] = c

\* strings.ContainsRune(s, r)
ContainsRune(s, r) == \E i \in 1..Len(s) : s[i] = r

\* strings.Split(s, sep) for a one-character separator: n separators give
\* n+1 parts, empty parts included.  cut(k) is the index of the k-th
\* separator, cut(0) and cut(n+1) the two ends of the text.
Split(s, sep) ==
    LET seps == { i \in 1..Len(s) : s[i] = sep }
        n    == Cardinality(seps)
        cut(k) == IF k = 0 THEN 0
                  ELSE IF k = n + 1 THEN Len(s) + 1
                  ELSE CHOOSE i \in seps : Cardinality({ j \in seps : j < i }) = k - 1
    IN  [k \in 1..(n + 1) |-> SubSeq(s, cut(k - 1) + 1, cut(k) - 1)]

\* unicode.ToUpper(c), on the ASCII letters
toUpperRune(c) ==
    IF \E k \in 1..Len(LowerChars) : LowerChars[k] = c
    THEN UpperChars[CHOOSE k \in 1..Len(LowerChars) : LowerChars[k] = c]
    ELSE c

\* strings.ToUpper(s)
ToUpper(s) == [i \in 1..Len(s) |-> toUpperRune(s[i])]

\* The value of a string of digits, most significant first.
DigitsValue(s) ==
    LET value[n \in 0..Len(s)] ==
            IF n = 0 THEN 0 ELSE 10 * value[n - 1] + DigitVal(s[n])
    IN  value[Len(s)]

\* strconv.Atoi(s): an optional sign, then one or more digits; on a syntax
\* error the value is 0 and err is set.  (The texts of this model are far
\* shorter than the 19 digits at which Atoi reports a range error.)
Atoi(s) ==
    LET signed == Len(s) > 0 /\ s[1] \in {"+", "-"}
        body   == IF signed THEN SubSeq(s, 2, Len(s)) ELSE s
        ok     == Len(body) > 0 /\ \A i \in 1..Len(body) : IsDigit(body[i])
    IN  IF ~ok THEN [val |-> 0, err |-> TRUE]
        ELSE [val |-> IF signed /\ s[1] = "-" THEN 0 - DigitsValue(body)
                      ELSE DigitsValue(body),
              err |-> FALSE]

\* fmt.Sprintf("%d", i): a sign for a negative number, then the decimal
\* digits of its magnitude, of which there are at most MaxDigits here.
MaxDigits == 12

toString(i) ==
    LET abs == IF i < 0 THEN 0 - i ELSE i
        n   == CHOOSE d \in 1..MaxDigits :
                   abs < 10 ^ d /\ (d = 1 \/ abs >= 10 ^ (d - 1))
        digits == [k \in 1..n |-> DigitChars[((abs \div (10 ^ (n - k))) % 10) + 1]]
    IN  IF i < 0 THEN <<"-">> \o digits ELSE digits

\* alphabeticalPattern = regexp.MustCompile("[A-Z]{3}"), MatchString: the
\* expression is not anchored, so it matches any text that holds three
\* consecutive upper-case letters.
alphabeticalPattern(s) ==
    \E i \in 1..(Len(s) - 2) : IsUpper(s[i]) /\ IsUpper(s[i + 1]) /\ IsUpper(s[i + 2])

-----------------------------------------------------------------------------
(* The name tables.  A Go map read at a missing key gives "".              *)

monthNames == << <<"J","A","N">>, <<"F","E","B">>, <<"M","A","R">>, <<"A","P","R">>,
                 <<"M","A","Y">>, <<"J","U","N">>, <<"J","U","L">>, <<"A","U","G">>,
                 <<"S","E","P">>, <<"O","C","T">>, <<"N","O","V">>, <<"D","E","C">> >>

weekdayNames == << <<"S","U","N">>, <<"M","O","N">>, <<"T","U","E">>, <<"W","E","D">>,
                   <<"T","H","U">>, <<"F","R","I">>, <<"S","A","T">> >>

\* monthMap: "JAN" -> "1" ... "DEC" -> "12"
monthMapHas(k) == \E i \in 1..Len(monthNames) : monthNames[i] = k

monthMap(k) ==
    IF monthMapHas(k)
    THEN toString(CHOOSE i \in 1..Len(monthNames) : monthNames[i] = k)
    ELSE <<>>

\* A weekdayMap that numbers the days from 1 (SUN -> 1 ... SAT -> 7).
weekdayMapFromOne(k) ==
    IF \E i \in 1..Len(weekdayNames) : weekdayNames[i] = k
    THEN toString(CHOOSE i \in 1..Len(weekdayNames) : weekdayNames[i] = k)
    ELSE <<>>

\* weekdayMap: "SUN" -> "0" ... "SAT" -> "6"
weekdayMapHas(k) == \E i \in 1..Len(weekdayNames) : weekdayNames[i] = k

\* weekdayMap[k]
weekdayMap(k) ==
    IF weekdayMapHas(k)
    THEN toString((CHOOSE i \in 1..Len(weekdayNames) : weekdayNames[i] = k) - 1)
    ELSE <<>>

-----------------------------------------------------------------------------
(* Job.Validate and its helpers.  An error is the pair of its message and  *)
(* the unit it names; the nil error is the empty tuple.                    *)

nil == <<>>

Errorf(msg, unit) == <<msg, unit>>

dateUnits == <<"minute", "hour", "day on month", "month", "day of week">>

validateMinute(v) == v >= 0 /\ v <= 60

\* The hours of a day only: 0..23.
validateHourOfDay(v) == v >= 0 /\ v <= 23

validateHour(v) == v >= 0 /\ v <= 24

validateDayOfMonth(v) == v >= 1 /\ v <= 31

validateMonth(v) == v >= 1 /\ v <= 12

validateDayOfWeek(v) == v >= 0 /\ v <= 6

\* unit is the index of the component, 0..4
validateDateComponent(v, unit) ==
    CASE unit = 0 -> validateMinute(v)
      [] unit = 1 -> validateHour(v)
      [] unit = 2 -> validateDayOfMonth(v)
      [] unit = 3 -> validateMonth(v)
      [] unit = 4 -> validateDayOfWeek(v)
      [] OTHER    -> FALSE

validateExpression(component, unit, i) ==
    LET parts == Split(component, "/")
        value == Atoi(parts[2])
    IN  IF Len(parts) > 2 THEN Errorf("Invalid expression", unit)
        ELSE IF value.err THEN Errorf("Invalid expression: syntax", unit)
        ELSE IF ~validateDateComponent(value.val, i) THEN Errorf("Invalid expression", unit)
        ELSE nil

\* A range check that lets equal bounds through.
validateRangeOrEqual(component, unit, i) ==
    LET parts == Split(component, "-")
        left  == Atoi(parts[1])
        right == Atoi(parts[2])
    IN  IF Len(parts) > 2 THEN Errorf("Invalid range", unit)
        ELSE IF left.err THEN Errorf("Invalid range: syntax", unit)
        ELSE IF right.err THEN Errorf("Invalid range: syntax", unit)
        ELSE IF left.val > right.val THEN Errorf("Invalid range", unit)
        ELSE IF ~validateDateComponent(left.val, i) \/ ~validateDateComponent(right.val, i)
             THEN Errorf("Invalid expression", unit)
        ELSE nil

validateRange(component, unit, i) ==
    LET parts == Split(component, "-")
        left  == Atoi(parts[1])
        right == Atoi(parts[2])
    IN  IF Len(parts) > 2 THEN Errorf("Invalid range", unit)
        ELSE IF left.err THEN Errorf("Invalid range: syntax", unit)
        ELSE IF right.err THEN Errorf("Invalid range: syntax", unit)
        ELSE IF left.val > right.val \/ left.val = right.val THEN Errorf("Invalid range", unit)
        ELSE IF ~validateDateComponent(left.val, i) \/ ~validateDateComponent(right.val, i)
             THEN Errorf("Invalid expression", unit)
        ELSE nil

validateList(component, unit, i) ==
    LET parts == Split(component, ",")
        value == [k \in 1..Len(parts) |-> Atoi(parts[k])]
        bad(k) == value[k].err \/ ~validateDateComponent(value[k].val, i)
    IN  IF \E k \in 1..Len(parts) : bad(k)
        THEN LET k == CHOOSE k \in 1..Len(parts) : bad(k) /\ \A j \in 1..(k - 1) : ~bad(j)
             IN  IF value[k].err THEN Errorf("Invalid list: syntax", unit)
                 ELSE Errorf("Invalid list", unit)
        ELSE nil

validateName(component, unit, i) ==
    IF i = 3 THEN (IF monthMapHas(component) THEN nil ELSE Errorf("Invalid value", unit))
    ELSE IF i = 4 THEN (IF weekdayMapHas(component) THEN nil ELSE Errorf("Invalid value", unit))
    ELSE Errorf("Invalid value", unit)

\* The body of Validate's loop for component number i (0-based).
validateComponent(component, i) ==
    LET unit == dateUnits[i + 1]
    IN  IF component = <<"*">> THEN nil
        ELSE IF ContainsRune(component, "/") THEN validateExpression(component, unit, i)
        ELSE IF ContainsRune(component, "-") THEN validateRange(component, unit, i)
        ELSE IF ContainsRune(component, ",") THEN validateList(component, unit, i)
        ELSE IF alphabeticalPattern(component) THEN validateName(component, unit, i)
        ELSE LET v == Atoi(component)
             IN  IF v.err THEN Errorf("Invalid value: syntax", unit)
                 ELSE IF ~validateDateComponent(v.val, i) THEN Errorf("Invalid value", unit)
                 ELSE nil

WildcardPattern == <<"*", " ", "*", " ", "*", " ", "*", " ", "*">>

\* `if err != nil { return err }` in a loop: the first error of the sequence
\* that is not nil, or nil.
firstNonNil(errors) ==
    IF \E i \in 1..Len(errors) : errors[i] # nil
    THEN errors[CHOOSE i \in 1..Len(errors) :
                    errors[i] # nil /\ \A j \in 1..(i - 1) : errors[j] = nil]
    ELSE nil

\* Job.Validate, on the job's Pattern: the first error in component order.
Validate(text) ==
    IF text = WildcardPattern THEN nil
    ELSE LET components == Split(text, " ")
         IN  IF Len(components) # 5
             THEN Errorf("Invalid number of date components", "")
             ELSE firstNonNil([i \in 1..5 |-> validateComponent(components[i], i - 1)])

-----------------------------------------------------------------------------
(* getRealPattern: the five components, names replaced by numbers.  The    *)
(* code reads components[0..4] without a check: on a text with fewer than  *)
(* five components it panics (index out of range), modelled as the pattern *)
(* indexOutOfRange; on a validated text that cannot happen.                *)

indexOutOfRange == << <<"p", "a", "n", "i", "c">> >>

getRealPattern(pattern) ==
    IF pattern = WildcardPattern
    THEN << <<"*">>, <<"*">>, <<"*">>, <<"*">>, <<"*">> >>
    ELSE LET components == Split(ToUpper(pattern), " ")
         IN  IF Len(components) < 5 THEN indexOutOfRange
             ELSE LET month     == components[4]
                      dayOfWeek == components[5]
                  IN  << components[1], components[2], components[3],
                         IF alphabeticalPattern(month) THEN monthMap(month) ELSE month,
                         IF alphabeticalPattern(dayOfWeek) THEN weekdayMap(dayOfWeek)
                         ELSE dayOfWeek >>

-----------------------------------------------------------------------------
(* The time matcher.  A call either returns a boolean or panics (Go's      *)
(* run-time fault on an integer division by zero).                         *)

Return(b) == [panic |-> FALSE, val |-> b]

Panicked == [panic |-> TRUE, val |-> FALSE]

\* Go's a % b for b # 0: the remainder has the sign of the dividend.
goRem(a, b) ==
    LET abs(x) == IF x < 0 THEN 0 - x ELSE x
    IN  IF a < 0 THEN 0 - (abs(a) % abs(b)) ELSE abs(a) % abs(b)

\* The step branch of isItTime: currentValue%divideBy == 0, which panics
\* when divideBy is 0.
stepMatch(currentValue, divideBy) ==
    IF divideBy = 0 THEN Panicked ELSE Return(goRem(currentValue, divideBy) = 0)

\* A range that leaves its end out.
rangeMatchEndExcluded(currentValue, start, end) ==
    Return(currentValue >= start /\ currentValue < end)

\* The range branch of isItTime.
rangeMatch(currentValue, start, end) ==
    Return(currentValue >= start /\ currentValue <= end)

\* A list of which only the first element is compared.
listMatchFirstOnly(currentValue, parts) ==
    Return(currentValue = Atoi(parts[1]).val)

\* The list branch of isItTime: the errors of Atoi are dropped, its value kept.
listMatch(currentValue, parts) ==
    Return(\E k \in 1..Len(parts) : currentValue = Atoi(parts[k]).val)

\* The last line of isItTime: the texts are compared, not the numbers.
exactMatch(dateComponent, currentValue) ==
    Return(dateComponent = toString(currentValue) \/ dateComponent = <<"*">>)

isItTime(dateComponent, currentValue) ==
    IF ContainsRune(dateComponent, "/")
    THEN stepMatch(currentValue, Atoi(Split(dateComponent, "/")[2]).val)
    ELSE IF ContainsRune(dateComponent, "-")
    THEN LET parts == Split(dateComponent, "-")
         IN  rangeMatch(currentValue, Atoi(parts[1]).val, Atoi(parts[2]).val)
    ELSE IF ContainsRune(dateComponent, ",")
    THEN listMatch(currentValue, Split(dateComponent, ","))
    ELSE exactMatch(dateComponent, currentValue)

\* An instant is [year, month, day, hour, minute]; clock.Weekday() is
\* computed from the date (0 = Sunday), by the days since 1970-01-01, a
\* Thursday.
DaysFromCivil(y, m, d) ==
    LET yy  == IF m <= 2 THEN y - 1 ELSE y
        era == yy \div 400
        yoe == yy - era * 400
        mp  == IF m > 2 THEN m - 3 ELSE m + 9
        doy == (153 * mp + 2) \div 5 + d - 1
        doe == yoe * 365 + yoe \div 4 - yoe \div 100 + doy
    IN  era * 146097 + doe - 719468

Weekday(clock) == (DaysFromCivil(clock.year, clock.month, clock.day) + 4) % 7

\* A day rule that always takes the conjunction.
dateOfMatchAlwaysAnd(dowIsStar, domIsStar, dayOfMonthMatch, dayOfWeekMatch) ==
    dayOfMonthMatch /\ dayOfWeekMatch

\* dateOfMatch of patternDoesMatch
dateOfMatch(dowIsStar, domIsStar, dayOfMonthMatch, dayOfWeekMatch) ==
    IF ~dowIsStar /\ ~domIsStar
    THEN dayOfMonthMatch \/ dayOfWeekMatch
    ELSE dayOfMonthMatch /\ dayOfWeekMatch

\* The five field predicates of patternDoesMatch, in the order the code
\* evaluates them.
fieldMatches(pattern, clock) ==
    << isItTime(pattern[1], clock.minute),
       isItTime(pattern[2], clock.hour),
       isItTime(pattern[3], clock.day),
       isItTime(pattern[4], clock.month),
       isItTime(pattern[5], Weekday(clock)) >>

patternDoesMatch(pattern, clock) ==
    LET m == fieldMatches(pattern, clock)
        minuteMatch     == m[1].val
        hourMatch       == m[2].val
        dayOfMonthMatch == m[3].val
        monthMatch      == m[4].val
        dayOfWeekMatch  == m[5].val
        dowIsStar == pattern[5] = <<"*">>
        domIsStar == pattern[3] = <<"*">>
    IN  IF \E k \in 1..5 : m[k].panic THEN Panicked
        ELSE Return((minuteMatch /\ hourMatch /\ monthMatch)
                    /\ dateOfMatch(dowIsStar, domIsStar, dayOfMonthMatch, dayOfWeekMatch))

\* Job.WouldRunNow at the instant `clock` (time.Now()), for a job
\* [Pattern, pattern]: the compiled pattern is computed when it is nil, and
\* the panic of getRealPattern is a panic of the call.
WouldRunNow(job, clock) ==
    IF job.Pattern = WildcardPattern THEN Return(TRUE)
    ELSE LET real == IF job.pattern = nil THEN getRealPattern(job.Pattern)
                     ELSE job.pattern
         IN  IF real = indexOutOfRange THEN Panicked
             ELSE patternDoesMatch(real, clock)

-----------------------------------------------------------------------------
(* The state.  The matcher's part: one job pattern taken through Validate, *)
(* getRealPattern and patternDoesMatch at one instant.                     *)

VARIABLES
    mpc,          \* "input", "rejected", "validated", "compiled", "matched"
    Pattern,      \* Job.Pattern, the text given by the caller
    focus,        \* the component (0..4) the input varies, 5 for a compound pattern
    validateErr,  \* what Validate returned
    compiled,      \* Job.pattern, what getRealPattern returned (nil before)
    moment,        \* the instant handed to patternDoesMatch
    fieldResult,  \* minuteMatch, hourMatch, dayOfMonthMatch, monthMatch, dayOfWeekMatch
    matchResult,  \* what patternDoesMatch returned
    \* the scheduler's part
    Jobs,         \* the slice handed to New
    tab,          \* the *Tab New returned: nil, or <<[Jobs, ExpireAfter, Interval]>>
    err,          \* the error New returned
    pc,           \* where the caller and the loop of ForceStart stand
    idx,          \* the position of `for _, job := range s.Jobs` (1-based)
    now,          \* the wall clock, in seconds since 2021-01-01 00:00:00
    wake,         \* the seconds left of the running time.Sleep
    goroutines,   \* the goroutines started by `go s.runJob(job)` that have not ended
    evaluated,    \* history: the jobs this tick has evaluated, <<job, instant, dispatched>>
    panicked,     \* history: the jobs whose Exec has panicked
    afterPanic,   \* history: this tick began after an Exec had panicked
    sleepsSinceStop, \* history: the sleeps begun since StopSoon set ExpireAfter (up to 2)
    ticks,        \* history: the instants at which the iterations that ranged over
                  \* the jobs began, where the specification records them
    second        \* the goroutine of a second call of Start or ForceStart on the
                  \* Tab: its pc, idx, wake and evaluated, and whether StopSoon
                  \* had been called when the call was made

mvars == <<mpc, Pattern, focus, validateErr, compiled, moment, fieldResult, matchResult>>

svars == <<Jobs, tab, err, pc, idx, now, wake, goroutines, evaluated, panicked,
           afterPanic, sleepsSinceStop, ticks, second>>

vars == <<mvars, svars>>

-----------------------------------------------------------------------------
(* The inputs of the matcher's specification.                              *)

\* The largest number written in an exact field; one more than the largest
\* value the validator accepts anywhere (minute 60).
MaxValue == 61

\* The days of a month at which a day-of-week field is tried: a whole week.
WeekDays == 7

Star == <<"*">>

Join5(a, b, c, d, e) ==
    a \o <<" ">> \o b \o <<" ">> \o c \o <<" ">> \o d \o <<" ">> \o e

\* The pattern that is "*" everywhere but at component i (0-based).
OneField(i, f) == Join5(IF i = 0 THEN f ELSE Star, IF i = 1 THEN f ELSE Star,
                        IF i = 2 THEN f ELSE Star, IF i = 3 THEN f ELSE Star,
                        IF i = 4 THEN f ELSE Star)

\* Numbers as a caller may write them: plain, with a leading zero, signed.
ExactFields ==
    UNION { { toString(n), <<"0">> \o toString(n), <<"+">> \o toString(n),
              <<"-">> \o toString(n) } : n \in 0..MaxValue }

EdgeValues == {0, 1, 2, 4, 5, 6, 7, 12, 13, 24, 25, 31, 32, 60, 61}

StepFields ==
    { l \o <<"/">> \o r :
        l \in { Star, <<"5">>, <<"J","A","N">>, <<"j","a","n">>, <<>> },
        r \in { toString(n) : n \in EdgeValues }
              \cup { <<"0","4">>, <<"+","4">>, <<"-","1">>, <<"f">>, <<>>, <<"1","/","1">> } }

RangeTokens ==
    { toString(n) : n \in {0, 1, 2, 5, 9, 12, 17, 26} }
    \cup { <<"f">>, <<>>, <<"+","1">>, <<"0","5">> }

RangeFields ==
    { a \o <<"-">> \o b : a \in RangeTokens, b \in RangeTokens }
    \cup { <<"1","-","2","-","3">> }

ListTokens ==
    { toString(n) : n \in {0, 3, 5, 7, 12, 17, 25} } \cup { <<"f">>, <<>>, <<"0","5">> }

ListFields ==
    { a \o <<",">> \o b : a \in ListTokens, b \in ListTokens }
    \cup { a \o <<",">> \o b \o <<",">> \o c :
             a \in { <<"3">>, <<"5">>, <<"7">> }, b \in { <<"3">>, <<"5">>, <<"7">> },
             c \in { <<"3">>, <<"5">>, <<"7">> } }

NameFields ==
    { monthNames[i] : i \in 1..Len(monthNames) }
    \cup { weekdayNames[i] : i \in 1..Len(weekdayNames) }
    \cup { <<"j","a","n">>, <<"J","a","n">>, <<"f","r","i">>, <<"F","O","O">>,
           <<"J","A","N","X">>, <<"1","J","A","N">>, <<"J","A">> }

Fields ==
    ExactFields \cup StepFields \cup RangeFields \cup ListFields \cup NameFields
    \cup { Star, <<>>, <<"?">>, <<"*","*">> }

\* Patterns that restrict the day of the month, the day of the week, both
\* or neither.
DayRulePatterns ==
    { Join5(Star, Star, dom, Star, dow) :
        dom \in { Star, <<"1","3">>, <<"1">>, <<"1","-","5">>, <<"*","/","2">>,
                  <<"1",",","1","3">> },
        dow \in { Star, <<"5">>, <<"F","R","I">>, <<"1">>, <<"0",",","6">>,
                  <<"*","/","2">> } }

\* The patterns of the package's documentation and tests.
TestPatterns ==
    { WildcardPattern,
      Join5(<<"0">>, <<"0">>, Star, Star, Star),
      Join5(<<"0">>, <<"*","/","4">>, Star, Star, Star),
      Join5(<<"0">>, <<"0">>, <<"1">>, <<"J","A","N">>, Star),
      Join5(<<"0">>, <<"0">>, <<"1">>, <<"1">>, Star),
      Join5(<<"0">>, <<"9","-","1","7">>, Star, Star, Star),
      Join5(<<"0">>, <<"3",",","5",",","7">>, Star, Star, Star),
      Join5(<<"*","/","5">>, <<"0">>, <<"1">>, <<"J","A","N">>, Star),
      Join5(<<"0">>, <<"*","/","4">>, <<"1">>, <<"1">>, <<"1">>),
      Join5(<<"0">>, <<"0">>, <<"1">>, <<"1">>, <<"0">>),
      Join5(<<"0">>, <<"0">>, <<"1">>, <<"N","O","V">>, <<"S","U","N">>),
      Join5(<<"0">>, <<"0">>, <<"1">>, <<"1","1">>, <<"0">>),
      Join5(<<"0">>, <<"f">>, <<"1">>, <<"1">>, <<"0">>),
      Join5(<<"0">>, <<"0">>, <<"0">>, <<"0">>, <<"0">>),
      Join5(<<"6","1">>, <<"0">>, <<"0">>, <<"0">>, <<"0">>),
      Join5(<<"0">>, <<"0">>, <<"J","A","N">>, <<"J","A","N">>, Star),
      Join5(<<"0">>, <<"0">>, <<"1">>, <<"J","A","N">>, <<"J","A","N">>),
      <<"f", "o", "o">>,
      <<"?", "?", "?", "?">>,
      <<>>,
      Join5(Star, Star, Star, Star, Star) \o <<" ", "*">>,
      <<"*", " ", "*", " ", "*", " ", "*">>,
      <<"*", " ", " ", "*", " ", "*", " ", "*", " ", "*">> }

Inputs ==
    { [Pattern |-> OneField(i, f), focus |-> i] : i \in 0..4, f \in Fields }
    \cup { [Pattern |-> p, focus |-> 5] : p \in DayRulePatterns \cup TestPatterns }

Instant(y, mo, d, h, mi) == [year |-> y, month |-> mo, day |-> d, hour |-> h, minute |-> mi]

\* The value of component i of an instant, as patternDoesMatch reads it.
ClockValue(c, i) ==
    CASE i = 0 -> c.minute
      [] i = 1 -> c.hour
      [] i = 2 -> c.day
      [] i = 3 -> c.month
      [] i = 4 -> Weekday(c)

\* The instants a pattern is matched at: for a pattern that varies one
\* component, every value of that component; for a compound pattern, every
\* day of November 2020 and January 2021 and the hours and minutes of the
\* tests.
Clocks(f) ==
    CASE f = 0 -> { Instant(2021, 1, 1, 0, v) : v \in 0..59 }
      [] f = 1 -> { Instant(2021, 1, 1, v, 0) : v \in 0..23 }
      [] f = 2 -> { Instant(2021, 1, v, 0, 0) : v \in 1..31 }
      [] f = 3 -> { Instant(2021, v, 1, 0, 0) : v \in 1..12 }
      [] f = 4 -> { Instant(2021, 1, v, 0, 0) : v \in 1..WeekDays }
                  \cup { Instant(2020, 11, v, 0, 0) : v \in 1..WeekDays }
      [] OTHER -> { Instant(2021, 1, v, 0, 0) : v \in 1..31 }
                  \cup { Instant(2020, 11, v, 0, 0) : v \in 1..30 }
                  \cup { Instant(2021, 1, 1, h, mi) :
                           h \in {0, 3, 4, 5, 7, 8, 9, 12, 15, 16, 17, 19}, mi \in {0, 1, 5, 26} }

NoInstant == Instant(0, 0, 0, 0, 0)

NoResult == [panic |-> FALSE, val |-> FALSE]

-----------------------------------------------------------------------------
(* The matcher's specification: the steps New and WouldRunNow take on one  *)
(* job.                                                                    *)

\* The scheduler is not part of the matcher's specification.
\* No second call is made.
NoSecondCall == [pc |-> "off", idx |-> 0, wake |-> 0, evaluated |-> <<>>, stopped |-> FALSE]

SchedulerOff ==
    /\ Jobs = <<>> /\ tab = nil /\ err = nil /\ pc = "off" /\ idx = 0 /\ now = 0
    /\ wake = 0 /\ goroutines = {} /\ evaluated = <<>> /\ panicked = {}
    /\ afterPanic = FALSE /\ sleepsSinceStop = 0 /\ ticks = <<>> /\ second = NoSecondCall

InitMatch ==
    /\ mpc = "input"
    /\ \E in \in Inputs : Pattern = in.Pattern /\ focus = in.focus
    /\ validateErr = nil
    /\ compiled = nil
    /\ moment = NoInstant
    /\ fieldResult = <<>>
    /\ matchResult = NoResult
    /\ SchedulerOff

\* job.Validate()
ValidateStep ==
    /\ mpc = "input"
    /\ validateErr' = Validate(Pattern)
    /\ mpc' = IF validateErr' = nil THEN "validated" ELSE "rejected"
    /\ UNCHANGED <<Pattern, focus, compiled, moment, fieldResult, matchResult>>
    /\ UNCHANGED svars

\* job.pattern = getRealPattern(job.Pattern), after Validate returned nil
getRealPatternStep ==
    /\ mpc = "validated"
    /\ compiled' = getRealPattern(Pattern)
    /\ mpc' = "compiled"
    /\ UNCHANGED <<Pattern, focus, validateErr, moment, fieldResult, matchResult>>
    /\ UNCHANGED svars

\* patternDoesMatch(job.pattern, clock)
patternDoesMatchStep ==
    /\ mpc = "compiled"
    /\ \E c \in Clocks(focus) :
          /\ moment' = c
          /\ fieldResult' = fieldMatches(compiled, c)
          /\ matchResult' = patternDoesMatch(compiled, c)
    /\ mpc' = "matched"
    /\ UNCHANGED <<Pattern, focus, validateErr, compiled>>
    /\ UNCHANGED svars

NextMatch == ValidateStep \/ getRealPatternStep \/ patternDoesMatchStep

SpecMatch == InitMatch /\ [][NextMatch]_vars

-----------------------------------------------------------------------------
(* Properties of the matcher, checked under SpecMatch.                     *)

\* The component the input varies, as the caller wrote it; its value at the
\* instant; what isItTime returned for it.
Field == Split(Pattern, " ")[focus + 1]

Value == ClockValue(moment, focus)

FieldOutcome == fieldResult[focus + 1]

Matched == mpc = "matched"

MatchedField == mpc = "matched" /\ focus \in 0..4

\* The text of a component that Validate takes as an exact integer.
IsExactField(f) ==
    /\ f # Star
    /\ ~ContainsRune(f, "/") /\ ~ContainsRune(f, "-") /\ ~ContainsRune(f, ",")
    /\ ~alphabeticalPattern(f)
    /\ ~Atoi(f).err

\* C4: the result of the matcher is minuteMatch AND hourMatch AND monthMatch
\* AND dateMatch, where dateMatch is domMatch OR dowMatch when both day
\* components are not "*", and domMatch AND dowMatch otherwise; "* * 13 * 5"
\* matches exactly the Fridays and the 13ths.  (An evaluation that faults
\* returns no result; C5 is about that.)
DayRule ==
    (Matched /\ ~matchResult.panic) =>
        LET text == Split(Pattern, " ")
            bothRestricted == text[3] # Star /\ text[5] # Star
            dateMatch == IF bothRestricted
                         THEN fieldResult[3].val \/ fieldResult[5].val
                         ELSE fieldResult[3].val /\ fieldResult[5].val
        IN  /\ matchResult.val =
                  (fieldResult[1].val /\ fieldResult[2].val /\ fieldResult[4].val /\ dateMatch)
            /\ Pattern = Join5(Star, Star, <<"1","3">>, Star, <<"5">>)
                  => (matchResult.val <=> (moment.day = 13 \/ Weekday(moment) = 5))

\* A Friday that is not a 13th matches "* * 13 * 5".
DayRuleWitness ==
    /\ Matched
    /\ Pattern = Join5(Star, Star, <<"1","3">>, Star, <<"5">>)
    /\ moment = Instant(2021, 1, 1, 0, 0)
    /\ matchResult = Return(TRUE)

\* C5: a pattern Validate accepted is evaluated by the matcher without a
\* run-time fault, at every instant.
AcceptedPatternNeverFaults ==
    Matched => ~matchResult.panic

\* C6: a component accepted as the exact integer n matches the value v
\* if and only if v = n.
ExactValueLaw ==
    (MatchedField /\ IsExactField(Field)) =>
        /\ ~FieldOutcome.panic
        /\ FieldOutcome.val <=> (Value = Atoi(Field).val)

\* C7: a component accepted in the form L/M, in any of the five positions,
\* matches the value v if and only if v mod M = 0.
StepLaw ==
    (MatchedField /\ ContainsRune(Field, "/")) =>
        LET M == Atoi(Split(Field, "/")[2]).val
        IN  /\ ~FieldOutcome.panic
            /\ M # 0
            /\ FieldOutcome.val <=> (Value % M = 0)

\* C8: a component accepted in the form A-B matches the value v if and only
\* if A <= v <= B; "0 9-17 * * *" matches at minute 0 of the hours 9 to 17.
RangeLaw ==
    /\ (MatchedField /\ ~ContainsRune(Field, "/") /\ ContainsRune(Field, "-")) =>
          LET A == Atoi(Split(Field, "-")[1]).val
              B == Atoi(Split(Field, "-")[2]).val
          IN  /\ ~FieldOutcome.panic
              /\ FieldOutcome.val <=> (A <= Value /\ Value <= B)
    /\ (Matched /\ Pattern = Join5(<<"0">>, <<"9","-","1","7">>, Star, Star, Star)) =>
          (matchResult.val <=> (moment.minute = 0 /\ 9 <= moment.hour /\ moment.hour <= 17))

\* The hour 17 matches the component 9-17.
RangeLawWitness ==
    /\ MatchedField
    /\ focus = 1
    /\ Field = <<"9","-","1","7">>
    /\ Value = 17
    /\ FieldOutcome = Return(TRUE)

\* C9: a component accepted in the form A,B,C,... matches the value v if
\* and only if v is the number of one of its elements; "0 3,5,7 * * *"
\* matches at 3:00, 5:00 and 7:00 only.
ListLaw ==
    /\ (MatchedField /\ ~ContainsRune(Field, "/") /\ ~ContainsRune(Field, "-")
            /\ ContainsRune(Field, ",")) =>
          LET elements == Split(Field, ",")
          IN  /\ ~FieldOutcome.panic
              /\ FieldOutcome.val <=>
                    (\E k \in 1..Len(elements) : Value = Atoi(elements[k]).val)
    /\ (Matched /\ Pattern = Join5(<<"0">>, <<"3",",","5",",","7">>, Star, Star, Star)) =>
          (matchResult.val <=> (moment.minute = 0 /\ moment.hour \in {3, 5, 7}))

\* 7:00 matches "0 3,5,7 * * *" by the last element of the list.
ListLawWitness ==
    /\ Matched
    /\ Pattern = Join5(<<"0">>, <<"3",",","5",",","7">>, Star, Star, Star)
    /\ moment = Instant(2021, 1, 1, 7, 0)
    /\ matchResult = Return(TRUE)

\* The number of a month or week day name, as a caller would write it.
IsMonthName(f) == f \in { monthNames[i] : i \in 1..Len(monthNames) }

IsWeekdayName(f) == f \in { weekdayNames[i] : i \in 1..Len(weekdayNames) }

IsThreeUpper(f) == Len(f) = 3 /\ \A i \in 1..3 : IsUpper(f[i])

\* The pattern with the name of its month and of its week day replaced by
\* the number.
Numbered(p) ==
    LET text == Split(p, " ")
    IN  Join5(text[1], text[2], text[3],
              IF IsMonthName(text[4])
              THEN toString(CHOOSE i \in 1..12 : monthNames[i] = text[4])
              ELSE text[4],
              IF IsWeekdayName(text[5])
              THEN toString((CHOOSE i \in 1..7 : weekdayNames[i] = text[5]) - 1)
              ELSE text[5])

\* C10: a pattern whose month is a name JAN..DEC or whose week day is a
\* name SUN..SAT is accepted (when the pattern with the numbers is) and
\* matches as the pattern with the numbers does; a three-letter name in the
\* minute, hour or day of month, or one that is not in the table of its
\* component, is rejected.
NamesAreNumbers ==
    LET text == Split(Pattern, " ")
    IN  (mpc # "input" /\ Len(text) = 5) =>
          /\ ((IsMonthName(text[4]) \/ IsWeekdayName(text[5]))
                  /\ Validate(Numbered(Pattern)) = nil) =>
                /\ validateErr = nil
                /\ Matched =>
                      matchResult = patternDoesMatch(getRealPattern(Numbered(Pattern)), moment)
          /\ (\E k \in 1..3 : IsThreeUpper(text[k])) => validateErr # nil
          /\ (IsThreeUpper(text[4]) /\ ~IsMonthName(text[4])) => validateErr # nil
          /\ (IsThreeUpper(text[5]) /\ ~IsWeekdayName(text[5])) => validateErr # nil

\* "0 0 1 NOV SUN" matches on Sunday the 1st of November 2020.
NamesAreNumbersWitness ==
    /\ Matched
    /\ Pattern = Join5(<<"0">>, <<"0">>, <<"1">>, <<"N","O","V">>, <<"S","U","N">>)
    /\ moment = Instant(2020, 11, 1, 0, 0)
    /\ matchResult = Return(TRUE)

\* A month or week day name written with a lowercase letter.
IsLowercasedName(f, names) ==
    /\ f # ToUpper(f)
    /\ ToUpper(f) \in { names[i] : i \in 1..Len(names) }

\* C11: a pattern whose month or week day is a three-letter name written
\* in lowercase or mixed case, as in "0 0 1 jan *", is accepted by Validate
\* (when the pattern with the uppercase name is) and matches the instants
\* the pattern with the uppercase name matches.
LowercaseNamesAreNormalized ==
    LET text == Split(Pattern, " ")
    IN  (mpc # "input" /\ Len(text) = 5
            /\ (IsLowercasedName(text[4], monthNames)
                    \/ IsLowercasedName(text[5], weekdayNames))
            /\ Validate(ToUpper(Pattern)) = nil) =>
          /\ validateErr = nil
          /\ Matched =>
                matchResult = patternDoesMatch(getRealPattern(ToUpper(Pattern)), moment)

\* Validate has refused "* * * jan *".
LowercaseNameRefused ==
    /\ mpc = "rejected"
    /\ Pattern = Join5(Star, Star, Star, <<"j","a","n">>, Star)
    /\ validateErr # nil

IsNumeric(f) == ~Atoi(f).err

\* The values the validator admits for component number i (0-based):
\* minute 0..60, hour 0..24, day of month 1..31, month 1..12, day of week
\* 0..6.
InDomain(v, i) ==
    v \in (CASE i = 0 -> 0..60
             [] i = 1 -> 0..24
             [] i = 2 -> 1..31
             [] i = 3 -> 1..12
             [] i = 4 -> 0..6)

NumericInDomain(f, i) == IsNumeric(f) /\ InDomain(Atoi(f).val, i)

FieldAccepted == validateErr = nil

RangeValidation ==
    (mpc # "input" /\ focus \in 0..4
        /\ ~ContainsRune(Field, "/") /\ ContainsRune(Field, "-")) =>
        LET bounds == Split(Field, "-")
        IN  /\ FieldAccepted <=>
                  /\ Len(bounds) = 2
                  /\ IsNumeric(bounds[1]) /\ IsNumeric(bounds[2])
                  /\ Atoi(bounds[1]).val < Atoi(bounds[2]).val
                  /\ InDomain(Atoi(bounds[1]).val, focus)
                  /\ InDomain(Atoi(bounds[2]).val, focus)
            /\ Field \in { <<"5","-","5">>, <<"5","-","2">>, <<"1","-","2","-","3">>,
                           <<"f","-","5">>, <<"1","-","f">>, <<"1","-">> }
                  => ~FieldAccepted
            /\ (focus = 1 /\ Field = <<"1","2","-","2","6">>) => ~FieldAccepted

\* Validate has accepted the hour range 12-17.
RangeValidationWitness ==
    /\ mpc = "validated"
    /\ focus = 1
    /\ Field = <<"1","2","-","1","7">>
    /\ FieldAccepted

-----------------------------------------------------------------------------
(* The scheduler: New, ForceStart, StopSoon and runJob.                    *)

\* Interval: 60 * time.Second, in seconds
DefaultInterval == 60

\* time.Now().AddDate(-1, 0, 0): one year back, in seconds
Year == 31536000

\* The jobs of one call of New, at most.
MaxJobs == 2

\* The minutes of wall-clock time the model tells apart; a later instant
\* reads as the last one.
MaxMinutes == 2

\* The seconds by which the wall clock is seen to advance: one Interval.
Quantum == DefaultInterval

MaxTime == MaxMinutes * 60

\* The iterations of the loop that the timed specification follows.
MaxTicks == 3

\* The seconds that pass while one iteration ranges over the jobs, at most.
MaxEvalDelay == 30

\* The last second the timed specification reaches: the wait of Start and
\* MaxTicks iterations of the longest Interval.
MaxSeconds == DefaultInterval + MaxTicks * (DefaultInterval + MaxEvalDelay)

\* The last minute of which WouldRunNow is asked.
LastMinute == IF MaxMinutes > MaxSeconds \div 60 THEN MaxMinutes ELSE MaxSeconds \div 60

Min(a, b) == IF a < b THEN a ELSE b

Max(a, b) == IF a > b THEN a ELSE b

\* time.Now() as an instant; the clock starts at 2021-01-01 00:00:00.
ClockOf(t) == Instant(2021, 1, 1 + t \div 86400, (t \div 3600) % 24, (t \div 60) % 60)

\* What a job's Exec does: it returns, it panics, it calls tab.StopSoon(),
\* or it never returns.
ExecKinds == {"return", "panic", "StopSoon", "block"}

Job(p, exec) == [Pattern |-> p, Exec |-> exec, pattern |-> nil]

\* The jobs handed to New: a job of each kind that runs every minute, a job
\* of minute 1, a job whose step is 0 and a job whose pattern is no pattern.
JobChoices ==
    { Job(WildcardPattern, k) : k \in ExecKinds }
    \cup { Job(Join5(<<"1">>, Star, Star, Star, Star), "return"),
           Job(Join5(<<"*", "/", "0">>, Star, Star, Star, Star), "return"),
           Job(<<"?", "?", "?", "?">>, "return") }

JobLists == UNION { [1..n -> JobChoices] : n \in 0..MaxJobs }

\* job.WouldRunNow() at time.Now() = t, for the jobs and the instants of the
\* scheduler: the values of WouldRunNow, computed once.
wouldRunNowTable ==
    { [job |-> job, minute |-> m, r |-> WouldRunNow(job, ClockOf(m * 60))] :
          job \in JobChoices, m \in 0..LastMinute }

wouldRunNowAt(job, t) ==
    (CHOOSE e \in wouldRunNowTable : e.job = job /\ e.minute = t \div 60).r

\* The error of the first job of the slice that Validate rejects.
firstError(jobs) == firstNonNil([i \in 1..Len(jobs) |-> Validate(jobs[i].Pattern)])

\* A New that leaves the rejected jobs out and returns the others.
NewSkippingInvalid(jobs) ==
    [tab |-> << [Jobs |-> SelectSeq(jobs, LAMBDA j : Validate(j.Pattern) = nil),
                 Interval |-> DefaultInterval, ExpireAfter |-> nil] >>,
     err |-> nil]

\* New(Jobs): the pair it returns.  `job.pattern = getRealPattern(...)` is an
\* assignment to the loop's copy of the job: the slice keeps its elements.
New(jobs) ==
    IF \E i \in 1..Len(jobs) : Validate(jobs[i].Pattern) # nil
    THEN [tab |-> nil, err |-> firstError(jobs)]
    ELSE [tab |-> << [Jobs |-> jobs, Interval |-> DefaultInterval, ExpireAfter |-> nil] >>,
          err |-> nil]

\* A StopSoon that sets the expiry a year ahead.
stopSoonTimeAhead(t) == t + Year

\* StopSoon: e := time.Now().AddDate(-1, 0, 0)
stopSoonTime(t) == t - Year

\* A test that takes the tab as expired a minute late.
expiredAMinuteAgo(ExpireAfter, t) == ExpireAfter # nil /\ t - ExpireAfter[1] > 60

\* ForceStart's test: s.ExpireAfter != nil and time.Since(*s.ExpireAfter) > 0
expired(ExpireAfter, t) == ExpireAfter # nil /\ t - ExpireAfter[1] > 0

\* A runJob whose deferred function does not recover.
recoversNothing(r) == FALSE

\* runJob's deferred function: recover() returns the value r of the panic,
\* which stops the panic, when r is not nil.
recovers(r) == r # nil

Running == pc \in {"check", "range", "sleep"}

MatcherOff ==
    /\ mpc = "off" /\ Pattern = <<>> /\ focus = 5 /\ validateErr = nil /\ compiled = nil
    /\ moment = NoInstant /\ fieldResult = <<>> /\ matchResult = NoResult

Init ==
    /\ Jobs \in JobLists
    /\ tab = nil /\ err = nil /\ pc = "new" /\ idx = 0 /\ now = 0 /\ wake = 0
    /\ goroutines = {} /\ evaluated = <<>> /\ panicked = {} /\ afterPanic = FALSE
    /\ sleepsSinceStop = 0 /\ ticks = <<>> /\ second = NoSecondCall
    /\ MatcherOff

\* tab, err := New(Jobs)
CallNew ==
    /\ pc = "new"
    /\ \E returned \in {New(Jobs)} :
          /\ tab' = returned.tab
          /\ err' = returned.err
          /\ pc' = IF returned.err = nil THEN "idle" ELSE "failed"
    /\ UNCHANGED <<Jobs, idx, now, wake, goroutines, evaluated, panicked, afterPanic,
                   sleepsSinceStop, ticks, second, mvars>>

\* A loop whose body begins with the sleep.
loopEntryAtSleep == "sleep"

\* `for {`: the loop is entered at its first statement, the test of
\* ExpireAfter.
loopEntry == "check"

\* tab.ForceStart(): the loop is entered at once
ForceStart ==
    /\ pc = "idle"
    /\ pc' = loopEntry
    /\ UNCHANGED <<Jobs, tab, err, idx, now, wake, goroutines, evaluated, panicked,
                   afterPanic, sleepsSinceStop, ticks, second, mvars>>

\* The head of an iteration: the test of ExpireAfter.
CheckHead ==
    /\ pc = "check"
    /\ IF expired(tab[1].ExpireAfter, now)
       THEN /\ pc' = "returned"
            /\ UNCHANGED <<idx, evaluated, afterPanic>>
       ELSE /\ pc' = "range"
            /\ idx' = 1
            /\ evaluated' = <<>>
            /\ afterPanic' = (panicked # {})
    /\ UNCHANGED <<Jobs, tab, err, now, wake, goroutines, panicked, sleepsSinceStop, second, mvars>>

Check == CheckHead /\ UNCHANGED ticks

\* A range that passes over every other element.
rangeNextSkipping(i) == i + 2

\* `for _, job := range s.Jobs`: the index of the element after element i.
rangeNext(i) == i + 1

\* One turn of `for _, job := range s.Jobs`: job.WouldRunNow() and, when it is
\* true, `go s.runJob(job)`.  A panic of WouldRunNow is a panic of the
\* goroutine of the loop: the program ends (pc = "faulted").
RangeStep ==
    /\ pc = "range"
    /\ idx <= Len(tab[1].Jobs)
    /\ \E r \in {wouldRunNowAt(tab[1].Jobs[idx], now)} :
           IF r.panic
           THEN /\ pc' = "faulted"
                /\ goroutines' = {}
                /\ UNCHANGED <<evaluated, idx>>
           ELSE /\ goroutines' = IF r.val
                                 THEN goroutines \cup {[job |-> idx, at |-> "runJob"]}
                                 ELSE goroutines
                /\ evaluated' = Append(evaluated, [job |-> idx, at |-> now, ran |-> r.val])
                /\ idx' = rangeNext(idx)
                /\ pc' = pc
    /\ UNCHANGED <<Jobs, tab, err, now, wake, panicked, afterPanic, sleepsSinceStop, ticks, second, mvars>>

\* time.Sleep(s.Interval) begins.
Sleep ==
    /\ pc = "range"
    /\ idx > Len(tab[1].Jobs)
    /\ pc' = "sleep"
    /\ wake' = tab[1].Interval
    /\ sleepsSinceStop' = IF tab[1].ExpireAfter # nil THEN Min(2, sleepsSinceStop + 1)
                          ELSE sleepsSinceStop
    /\ UNCHANGED <<Jobs, tab, err, idx, now, goroutines, evaluated, panicked, afterPanic, ticks, second,
                   mvars>>

\* time.Sleep returns, not before its duration has passed.
WakeUp ==
    /\ pc = "sleep"
    /\ wake = 0
    /\ pc' = "check"
    /\ UNCHANGED <<Jobs, tab, err, idx, now, wake, goroutines, evaluated, panicked,
                   afterPanic, sleepsSinceStop, ticks, second, mvars>>

\* Time passes.
ClockAdvance ==
    /\ pc \in {"idle", "check", "range", "sleep"}
    /\ now' = Min(now + Quantum, MaxTime)
    /\ wake' = IF pc = "sleep" THEN Max(0, wake - Quantum) ELSE wake
    /\ UNCHANGED <<Jobs, tab, err, pc, idx, goroutines, evaluated, panicked, afterPanic,
                   sleepsSinceStop, ticks, second, mvars>>

\* tab.StopSoon(), called by any goroutine of the program.
StopSoon ==
    /\ pc \in {"idle", "check", "range", "sleep"}
    /\ tab' = << [tab[1] EXCEPT !.ExpireAfter = <<stopSoonTime(now)>>] >>
    /\ UNCHANGED <<Jobs, err, pc, idx, now, wake, goroutines, evaluated, panicked,
                   afterPanic, sleepsSinceStop, ticks, second, mvars>>

\* s.runJob(job) in its goroutine: job.Exec() and the deferred recover.
runJob ==
    \E g \in goroutines :
        /\ g.at = "runJob"
        /\ LET exec == tab[1].Jobs[g.job].Exec
           IN  CASE exec = "return" ->
                        /\ goroutines' = goroutines \ {g}
                        /\ UNCHANGED <<tab, pc, panicked>>
                 [] exec = "block" ->
                        /\ goroutines' = (goroutines \ {g}) \cup {[g EXCEPT !.at = "blocked"]}
                        /\ UNCHANGED <<tab, pc, panicked>>
                 [] exec = "StopSoon" ->
                        /\ tab' = << [tab[1] EXCEPT !.ExpireAfter = <<stopSoonTime(now)>>] >>
                        /\ goroutines' = goroutines \ {g}
                        /\ UNCHANGED <<pc, panicked>>
                 [] exec = "panic" ->
                        /\ panicked' = panicked \cup {g.job}
                        /\ IF recovers(<<"(intentional panic)">>)
                           THEN /\ goroutines' = goroutines \ {g}
                                /\ pc' = pc
                           ELSE /\ goroutines' = {}
                                /\ pc' = "crashed"
                        /\ UNCHANGED tab
        /\ UNCHANGED <<Jobs, err, idx, now, wake, evaluated, afterPanic, sleepsSinceStop, ticks, second,
                       mvars>>

Next ==
    \/ CallNew
    \/ ForceStart
    \/ Check
    \/ RangeStep
    \/ Sleep
    \/ WakeUp
    \/ ClockAdvance
    \/ StopSoon
    \/ runJob

Spec == Init /\ [][Next]_vars

\* The Go scheduler runs every runnable goroutine, and time passes: the loop
\* of ForceStart takes its next step, and a sleep ends.
FairSpec ==
    /\ Spec
    /\ WF_vars(Check) /\ WF_vars(RangeStep) /\ WF_vars(Sleep) /\ WF_vars(WakeUp)
    /\ WF_vars(ClockAdvance)

-----------------------------------------------------------------------------
(* The scheduler by the second: Start, the sleeps of the loop and the time *)
(* that the evaluation of the jobs takes.  The caller has built the Tab    *)
(* with New and has set its exported fields Interval and ExpireAfter.      *)

\* The values a caller gives to Interval: the default and half of it.
Intervals == { DefaultInterval \div 2, DefaultInterval }

\* time.Now().Second() when the caller calls Start or ForceStart.
StartSeconds == { 0, 45 }

\* The values a caller gives to ExpireAfter: none, an instant before the
\* call and an instant after it.
Expiries == { nil, <<0 - 1>>, <<100>> }

\* The jobs of the Tab: a job that runs every minute, a job that runs every
\* minute and calls StopSoon, and a job of minute 1.
TimedJobChoices ==
    { Job(WildcardPattern, "return"), Job(WildcardPattern, "StopSoon"),
      Job(Join5(<<"1">>, Star, Star, Star, Star), "return") }

TimedJobLists == UNION { [1..n -> TimedJobChoices] : n \in 0..MaxJobs }

\* Start's waitDur, in seconds: int(s.Interval.Seconds()) - time.Now().Second()
waitDur(Interval, t) == Interval - (t % 60)

InitTimed ==
    /\ Jobs \in TimedJobLists
    /\ \E i \in Intervals, e \in Expiries :
          tab = << [New(Jobs).tab[1] EXCEPT !.Interval = i, !.ExpireAfter = e] >>
    /\ now \in StartSeconds
    /\ err = nil /\ pc = "idle" /\ idx = 0 /\ wake = 0
    /\ goroutines = {} /\ evaluated = <<>> /\ panicked = {} /\ afterPanic = FALSE
    /\ sleepsSinceStop = 0 /\ ticks = <<>> /\ second = NoSecondCall
    /\ MatcherOff

\* tab.Start(): waitDur is computed and time.Sleep(waitDur * time.Second)
\* begins.
Start ==
    /\ pc = "idle"
    /\ pc' = "wait"
    /\ wake' = waitDur(tab[1].Interval, now)
    /\ UNCHANGED <<Jobs, tab, err, idx, now, goroutines, evaluated, panicked, afterPanic,
                   sleepsSinceStop, ticks, second, mvars>>

\* Start's time.Sleep returns, at once when the duration is zero or
\* negative, and Start calls s.ForceStart().
StartForceStart ==
    /\ pc = "wait"
    /\ wake <= 0
    /\ pc' = loopEntry
    /\ UNCHANGED <<Jobs, tab, err, idx, now, wake, goroutines, evaluated, panicked,
                   afterPanic, sleepsSinceStop, ticks, second, mvars>>

\* The head of an iteration, with the instant of an iteration that goes on
\* to range over the jobs recorded.
CheckTimed ==
    /\ expired(tab[1].ExpireAfter, now) \/ Len(ticks) < MaxTicks
    /\ CheckHead
    /\ ticks' = IF expired(tab[1].ExpireAfter, now) THEN ticks ELSE Append(ticks, now)

\* The duration of a time.Sleep passes.
SleepPasses ==
    /\ pc \in {"wait", "sleep"}
    /\ wake > 0
    /\ now' = now + wake
    /\ wake' = 0
    /\ UNCHANGED <<Jobs, tab, err, pc, idx, goroutines, evaluated, panicked, afterPanic,
                   sleepsSinceStop, ticks, second, mvars>>

\* Time passes while the loop ranges over the jobs.
EvaluationTakesTime ==
    /\ pc = "range"
    /\ now < ticks[Len(ticks)] + MaxEvalDelay
    /\ now' = now + MaxEvalDelay
    /\ UNCHANGED <<Jobs, tab, err, pc, idx, wake, goroutines, evaluated, panicked,
                   afterPanic, sleepsSinceStop, ticks, second, mvars>>

NextTimed ==
    \/ Start
    \/ StartForceStart
    \/ ForceStart
    \/ CheckTimed
    \/ RangeStep
    \/ EvaluationTakesTime
    \/ Sleep
    \/ WakeUp
    \/ SleepPasses
    \/ runJob

SpecTimed == InitTimed /\ [][NextTimed]_vars

-----------------------------------------------------------------------------
(* Two calls on one Tab: after the first call of Start or ForceStart,      *)
(* another goroutine calls Start or ForceStart on the same Tab, while the  *)
(* first call runs or after it has returned.  The second call runs the     *)
(* same code on the same Tab; its pc, idx, wake and evaluated are the      *)
(* fields of `second`.                                                     *)

\* The jobs of the Tab: a job that runs every minute and a job of minute 1.
\* StopSoon is called by another goroutine of the program.
CallsJobChoices ==
    { Job(WildcardPattern, "return"),
      Job(Join5(<<"1">>, Star, Star, Star, Star), "return") }

\* The jobs of the Tab on which two calls are made, at most.
MaxCallsJobs == 2

CallsJobLists == UNION { [1..n -> CallsJobChoices] : n \in 0..MaxCallsJobs }

\* The last instant the two calls tell apart: one Interval after the first
\* call; a later instant reads as this one.
LastCallsTime == DefaultInterval

InitCalls ==
    /\ Jobs \in CallsJobLists
    /\ tab = New(Jobs).tab
    /\ err = nil /\ pc = "idle" /\ idx = 0 /\ now = 0 /\ wake = 0
    /\ goroutines = {} /\ evaluated = <<>> /\ panicked = {} /\ afterPanic = FALSE
    /\ sleepsSinceStop = 0 /\ ticks = <<>>
    /\ second = [NoSecondCall EXCEPT !.pc = "idle"]
    /\ MatcherOff

\* What the second call leaves as it is.
SecondOnly ==
    UNCHANGED <<Jobs, tab, err, pc, idx, now, wake, goroutines, evaluated, panicked,
                afterPanic, sleepsSinceStop, ticks, mvars>>

\* The second call is tab.Start(): waitDur is computed and the sleep begins.
SecondStart ==
    /\ pc # "idle"
    /\ second.pc = "idle"
    /\ second' = [second EXCEPT !.pc = "wait",
                                !.wake = waitDur(tab[1].Interval, now),
                                !.stopped = (tab[1].ExpireAfter # nil)]
    /\ SecondOnly

\* The sleep of the second call's Start returns and it calls s.ForceStart().
SecondStartForceStart ==
    /\ second.pc = "wait"
    /\ second.wake <= 0
    /\ second' = [second EXCEPT !.pc = loopEntry]
    /\ SecondOnly

\* The second call is tab.ForceStart(): the loop is entered at once.
SecondForceStart ==
    /\ pc # "idle"
    /\ second.pc = "idle"
    /\ second' = [second EXCEPT !.pc = loopEntry, !.stopped = (tab[1].ExpireAfter # nil)]
    /\ SecondOnly

\* The head of an iteration of the second call's loop.
SecondCheck ==
    /\ second.pc = "check"
    /\ second' = IF expired(tab[1].ExpireAfter, now)
                 THEN [second EXCEPT !.pc = "returned"]
                 ELSE [second EXCEPT !.pc = "range", !.idx = 1, !.evaluated = <<>>]
    /\ SecondOnly

\* One turn of the range over s.Jobs in the second call's loop.
SecondRangeStep ==
    /\ second.pc = "range"
    /\ second.idx <= Len(tab[1].Jobs)
    /\ \E r \in {wouldRunNowAt(tab[1].Jobs[second.idx], now)} :
           IF r.panic
           THEN /\ second' = [second EXCEPT !.pc = "faulted"]
                /\ pc' = "faulted"
                /\ goroutines' = {}
           ELSE /\ goroutines' = IF r.val
                                 THEN goroutines \cup {[job |-> second.idx, at |-> "runJob"]}
                                 ELSE goroutines
                /\ second' = [second EXCEPT
                                 !.evaluated = Append(second.evaluated,
                                     [job |-> second.idx, at |-> now, ran |-> r.val]),
                                 !.idx = rangeNext(second.idx)]
                /\ pc' = pc
    /\ UNCHANGED <<Jobs, tab, err, idx, now, wake, evaluated, panicked, afterPanic,
                   sleepsSinceStop, ticks, mvars>>

\* time.Sleep(s.Interval) begins in the second call's loop.
SecondSleep ==
    /\ second.pc = "range"
    /\ second.idx > Len(tab[1].Jobs)
    /\ second' = [second EXCEPT !.pc = "sleep", !.wake = tab[1].Interval]
    /\ SecondOnly

\* time.Sleep returns in the second call's loop.
SecondWakeUp ==
    /\ second.pc = "sleep"
    /\ second.wake = 0
    /\ second' = [second EXCEPT !.pc = "check"]
    /\ SecondOnly

\* Time passes, for both calls.
ClockAdvanceCalls ==
    /\ now' = Min(now + Quantum, LastCallsTime)
    /\ wake' = IF pc \in {"wait", "sleep"} THEN Max(0, wake - Quantum) ELSE wake
    /\ second' = IF second.pc \in {"wait", "sleep"}
                 THEN [second EXCEPT !.wake = Max(0, second.wake - Quantum)]
                 ELSE second
    /\ UNCHANGED <<Jobs, tab, err, pc, idx, goroutines, evaluated, panicked, afterPanic,
                   sleepsSinceStop, ticks, mvars>>

NextCalls ==
    \/ Start
    \/ StartForceStart
    \/ ForceStart
    \/ Check
    \/ RangeStep
    \/ Sleep
    \/ WakeUp
    \/ StopSoon
    \/ runJob
    \/ SecondStart
    \/ SecondStartForceStart
    \/ SecondForceStart
    \/ SecondCheck
    \/ SecondRangeStep
    \/ SecondSleep
    \/ SecondWakeUp
    \/ ClockAdvanceCalls

SpecCalls == InitCalls /\ [][NextCalls]_vars

-----------------------------------------------------------------------------
(* Properties of the scheduler, checked under Spec and FairSpec.           *)

\* C1: New is all-or-nothing.  When Validate rejects the pattern of any job
\* of the slice, New returns a nil Tab and an error; when it rejects none,
\* New returns a Tab that holds all the jobs in the given order, and no error.
NewIsAllOrNothing ==
    (pc # "new") =>
        IF \E i \in 1..Len(Jobs) : Validate(Jobs[i].Pattern) # nil
        THEN tab = nil /\ err # nil
        ELSE /\ tab # nil
             /\ err = nil
             /\ Len(tab[1].Jobs) = Len(Jobs)
             /\ \A i \in 1..Len(Jobs) :
                   /\ tab[1].Jobs[i].Pattern = Jobs[i].Pattern
                   /\ tab[1].Jobs[i].Exec = Jobs[i].Exec

\* New has rejected a slice whose first job is valid and whose second is not.
NewIsAllOrNothingWitness ==
    /\ pc = "failed"
    /\ Len(Jobs) = 2
    /\ Validate(Jobs[1].Pattern) = nil
    /\ Validate(Jobs[2].Pattern) # nil
    /\ tab = nil
    /\ err # nil

\* StopSoon has set ExpireAfter.
Stopped == tab # nil /\ tab[1].ExpireAfter # nil

\* C2: when StopSoon is called while ForceStart runs, by a job of the loop
\* or by another caller, ForceStart returns: the loop begins at most one
\* more sleep and leaves at its next test of ExpireAfter.  (A loop that
\* ends by the fault of a pattern, pc = "faulted", has not returned.)
StopSoonEndsTheLoop ==
    /\ [](Stopped => sleepsSinceStop <= 1)
    /\ (Stopped /\ Running) ~> (pc = "returned")

\* ForceStart has returned after the one sleep that followed StopSoon.
StopSoonEndsTheLoopWitness ==
    /\ pc = "returned"
    /\ Stopped
    /\ sleepsSinceStop = 1

\* The tick that has just ended evaluated every job of the tab once, in
\* order, and dispatched exactly those whose pattern matched.
TickComplete ==
    /\ Len(evaluated) = Len(tab[1].Jobs)
    /\ \A k \in 1..Len(evaluated) :
          /\ evaluated[k].job = k
          /\ evaluated[k].ran =
                WouldRunNow(tab[1].Jobs[k], ClockOf(evaluated[k].at)).val

\* C3: a panic of a job's Exec is recovered in the goroutine of that job.
\* It never ends the program (pc = "crashed" is the end by an unrecovered
\* panic of Exec), the step that ends the panicking goroutine leaves the
\* loop where it is and every other goroutine running, and the ticks that
\* follow a panic evaluate every job and dispatch every job that matches.
PanicIsContained ==
    /\ [](pc # "crashed")
    /\ []((afterPanic /\ pc = "sleep") => TickComplete)
    /\ [][\A g \in goroutines :
             (/\ g.at = "runJob"
              /\ tab[1].Jobs[g.job].Exec = "panic"
              /\ g \notin goroutines'
              /\ pc' # "faulted")
                 => (pc' = pc /\ goroutines' = goroutines \ {g})]_vars

\* A tick that began after a panic has dispatched both jobs of the tab.
PanicIsContainedWitness ==
    /\ afterPanic
    /\ pc = "sleep"
    /\ Len(evaluated) = 2
    /\ evaluated[1].ran /\ evaluated[2].ran
    /\ 1 \in panicked

-----------------------------------------------------------------------------
(* Properties of Start and of the loop by the second, checked under        *)
(* SpecTimed.                                                              *)

\* C14: for the Interval of the Tab, the delay that Start computes is not
\* negative and ends on a boundary of Interval, where Start enters
\* ForceStart, whose first iteration begins at that instant; for the
\* Interval of 60 seconds the delay d computed at the second s of the minute
\* has 1 <= d <= 60 and (s + d) mod 60 = 0.
StartAlignsFirstTick ==
    (pc = "wait") =>
        /\ wake >= 0
        /\ (wake = 0) => now % tab[1].Interval = 0
        /\ (wake > 0) => (now + wake) % tab[1].Interval = 0
        /\ (wake > 0 /\ tab[1].Interval = 60) =>
              (1 <= wake /\ wake <= 60 /\ (now + wake) % 60 = 0)

\* Start, called at second 45 with an Interval of 30 seconds, sleeps for
\* -15 seconds.
StartWaitsNegative ==
    /\ pc = "wait"
    /\ tab[1].Interval = 30
    /\ now = 45
    /\ wake = 0 - 15

\* The minute of the wall clock in which the iteration number k began.
TickMinute(k) == ticks[k] \div 60

\* C15: the loop sleeps for the remainder of the minute only, so with the
\* Interval of 60 seconds and a first iteration at the start of a minute,
\* every minute in which the loop runs gets exactly one iteration: each
\* iteration begins in the minute that follows the minute of the iteration
\* before it, whatever time the evaluation of the jobs takes.
NoDrift ==
    (tab[1].Interval = DefaultInterval /\ Len(ticks) >= 1 /\ ticks[1] % 60 = 0) =>
        /\ \A k \in 1..(Len(ticks) - 1) : TickMinute(k + 1) = TickMinute(k) + 1
        /\ (pc = "sleep" /\ wake > 0) => (now + wake) % 60 = 0

\* After two evaluations of half a minute each the loop has passed over a
\* minute: its iterations began at 1:00, 2:30 and 4:00.
MinuteSkipped ==
    /\ tab[1].Interval = DefaultInterval
    /\ ticks = <<60, 150, 240>>

-----------------------------------------------------------------------------
(* Properties of one iteration of the loop, checked under Spec.            *)

\* C16: the jobs of one iteration are all evaluated against one and the
\* same instant, and the jobs the iteration dispatches are exactly the jobs
\* of the tab whose pattern matches that instant, each dispatched once.
OneNowPerTick ==
    (pc = "sleep") =>
        /\ Len(evaluated) = Len(tab[1].Jobs)
        /\ \A k \in 1..Len(evaluated) :
              /\ evaluated[k].job = k
              /\ evaluated[k].at = evaluated[1].at
              /\ evaluated[k].ran =
                    WouldRunNow(tab[1].Jobs[k], ClockOf(evaluated[1].at)).val

\* An iteration that began in minute 0 has dispatched the job of minute 1,
\* which it evaluated after the minute had turned.
JobOfNextMinuteDispatched ==
    /\ pc = "sleep"
    /\ Len(evaluated) = 2
    /\ evaluated[1].at = 0
    /\ evaluated[2].at = 60
    /\ tab[1].Jobs[2].Pattern = Join5(<<"1">>, Star, Star, Star, Star)
    /\ evaluated[2].ran

\* A goroutine of a job that never returns is there.
SomeJobBlocked == \E g \in goroutines : g.at = "blocked"

\* C17: in one iteration the jobs are evaluated and dispatched in the order
\* of Tab.Jobs, and the loop never waits for a job it dispatched: whatever
\* goroutines of jobs are running or blocked, the next evaluation, the sleep
\* and the next iteration can take place, and the iteration evaluates every
\* job of the tab before it sleeps.
OrderedAndNeverWaiting ==
    /\ (pc \in {"range", "sleep"}) =>
          /\ \A k \in 1..Len(evaluated) : evaluated[k].job = k
          /\ \A k \in 1..(Len(evaluated) - 1) : evaluated[k].at <= evaluated[k + 1].at
    /\ (pc = "range") => idx = Len(evaluated) + 1
    /\ (pc = "sleep") => Len(evaluated) = Len(tab[1].Jobs)
    /\ (pc = "range" /\ idx <= Len(tab[1].Jobs)) => ENABLED RangeStep
    /\ (pc = "range" /\ idx > Len(tab[1].Jobs)) => ENABLED Sleep
    /\ (pc = "sleep" /\ wake = 0) => ENABLED WakeUp
    /\ (pc = "check") => ENABLED Check

\* While the goroutine of the first job is blocked, a later iteration has
\* evaluated both jobs and dispatched the second.
OrderedAndNeverWaitingWitness ==
    /\ pc = "sleep"
    /\ [job |-> 1, at |-> "blocked"] \in goroutines
    /\ Len(evaluated) = 2
    /\ evaluated[2].ran
    /\ evaluated[1].at > 0

-----------------------------------------------------------------------------
(* Properties of the entry of the loop and of its test of ExpireAfter,     *)
(* checked under SpecTimed.                                                *)

\* C18: ForceStart runs its first iteration at once, whatever the Interval:
\* the loop does not sleep before its first iteration, that iteration begins
\* at the instant of the entry when ExpireAfter does not stop it, and when
\* the loop sleeps for the first time every job has been evaluated and every
\* job that matched has been dispatched.
FirstTickAtOnce ==
    /\ []((pc = "sleep") => Len(ticks) >= 1)
    /\ []((pc = "sleep" /\ Len(ticks) = 1) =>
            /\ Len(evaluated) = Len(tab[1].Jobs)
            /\ \A k \in 1..Len(evaluated) :
                  /\ evaluated[k].job = k
                  /\ evaluated[k].at >= ticks[1]
                  /\ evaluated[k].ran = wouldRunNowAt(tab[1].Jobs[k], evaluated[k].at).val)
    /\ [][(pc = "check" /\ ticks = <<>> /\ tab[1].ExpireAfter = nil)
             => (pc' = "range" /\ ticks' = <<now>> /\ now' = now)]_vars

\* ForceStart, called at second 45 with the Interval of 60 seconds, has
\* dispatched a job at second 45 and sleeps for the first time.
FirstTickAtOnceWitness ==
    /\ pc = "sleep"
    /\ tab[1].Interval = 60
    /\ tab[1].ExpireAfter = nil
    /\ ticks = <<45>>
    /\ Len(evaluated) >= 1
    /\ evaluated[1].ran
    /\ evaluated[1].at = 45

\* ExpireAfter is set and lies before now.
IsPast == tab[1].ExpireAfter # nil /\ tab[1].ExpireAfter[1] < now

\* C19: the test of ExpireAfter comes before the dispatch in every
\* iteration.  When ExpireAfter is set and lies before now at the head of an
\* iteration, the step of the loop is the return of ForceStart, and it
\* dispatches no job; a Tab whose ExpireAfter is past when ForceStart is
\* called dispatches no job at all; and ForceStart returns only at the head
\* of an iteration with ExpireAfter set and past, so a Tab whose ExpireAfter
\* is nil never stops by expiry.
ExpiryPrecedesDispatch ==
    /\ [][(pc = "check" /\ IsPast /\ pc' # pc)
             => (/\ pc' = "returned"
                 /\ goroutines' = goroutines
                 /\ evaluated' = evaluated
                 /\ ticks' = ticks)]_vars
    /\ [][(pc # "returned" /\ pc' = "returned") => (pc = "check" /\ IsPast)]_vars
    /\ []((tab[1].ExpireAfter = <<0 - 1>>) =>
             (ticks = <<>> /\ evaluated = <<>> /\ goroutines = {}
                 /\ pc \in {"idle", "wait", "check", "returned"}))
    /\ []((pc = "returned") => tab[1].ExpireAfter # nil)

\* ForceStart, called on a Tab of two jobs that run every minute whose
\* ExpireAfter was already past, has returned and has dispatched nothing.
ExpiryPrecedesDispatchWitness ==
    /\ pc = "returned"
    /\ tab[1].ExpireAfter = <<0 - 1>>
    /\ Len(tab[1].Jobs) = 2
    /\ \A k \in 1..2 : tab[1].Jobs[k].Pattern = WildcardPattern
    /\ ticks = <<>>
    /\ goroutines = {}

-----------------------------------------------------------------------------
(* The accesses to ExpireAfter, checked under Spec.  Tab holds no lock and *)
(* no atomic value: the read of the loop and the write of StopSoon are     *)
(* each one step, and nothing orders a step of one goroutine with a step   *)
(* of another.                                                             *)

\* The goroutine of a job is about to call tab.StopSoon().
JobAboutToStopSoon ==
    \E g \in goroutines : g.at = "runJob" /\ tab[1].Jobs[g.job].Exec = "StopSoon"

\* C20: the write of ExpireAfter by StopSoon, called from the goroutine of a
\* job or by another caller, and the read of it by the loop are ordered by
\* a lock or an atomic operation: in no reachable state can the write and
\* the read both be the next step.
ExpireAfterIsSynchronized ==
    /\ ~(ENABLED Check /\ ENABLED StopSoon)
    /\ ~(ENABLED Check /\ JobAboutToStopSoon /\ ENABLED runJob)

\* The loop is at its test of ExpireAfter while the goroutine of a job it
\* dispatched in the iteration before is about to write ExpireAfter.
ReadAndWriteTogether ==
    /\ pc = "check"
    /\ tab[1].ExpireAfter = nil
    /\ JobAboutToStopSoon

-----------------------------------------------------------------------------
(* The compiled pattern of the jobs of a Tab, checked under Spec.          *)

\* C22: the patterns are compiled once, by New: every job of the Tab that
\* New returned without an error holds its compiled pattern of five
\* components, so that the loop compiles no pattern when it evaluates a job.
PatternsCompiledByNew ==
    (pc # "new" /\ tab # nil) =>
        \A i \in 1..Len(tab[1].Jobs) :
            /\ tab[1].Jobs[i].pattern # nil
            /\ tab[1].Jobs[i].pattern = getRealPattern(tab[1].Jobs[i].Pattern)

\* New has returned a Tab whose job "1 * * * *" holds no compiled pattern.
JobHoldsNoPattern ==
    /\ pc = "idle"
    /\ err = nil
    /\ Len(tab[1].Jobs) >= 1
    /\ tab[1].Jobs[1].Pattern = Join5(<<"1">>, Star, Star, Star, Star)
    /\ tab[1].Jobs[1].pattern = nil

-----------------------------------------------------------------------------
(* Properties of two calls on one Tab, checked under SpecCalls.            *)

InLoop(p) == p \in {"check", "range", "sleep"}

\* C21: a Tab has at most one active loop.  While the loop of one call of
\* Start or ForceStart runs, a second call on the same Tab runs no second
\* loop, and no job is dispatched by the loops of both calls for the same
\* minute.
OneActiveLoop ==
    /\ ~(InLoop(pc) /\ InLoop(second.pc))
    /\ \A k \in 1..Len(evaluated) : \A l \in 1..Len(second.evaluated) :
          ~(/\ evaluated[k].ran
            /\ second.evaluated[l].ran
            /\ evaluated[k].job = second.evaluated[l].job
            /\ evaluated[k].at \div 60 = second.evaluated[l].at \div 60)

\* The loops of both calls sleep after each has dispatched the first job of
\* the Tab in minute 0.
JobDispatchedByTwoLoops ==
    /\ pc = "sleep"
    /\ second.pc = "sleep"
    /\ Len(evaluated) >= 1 /\ Len(second.evaluated) >= 1
    /\ evaluated[1] = [job |-> 1, at |-> 0, ran |-> TRUE]
    /\ second.evaluated[1] = [job |-> 1, at |-> 0, ran |-> TRUE]

\* C23: stopping is permanent.  Once StopSoon has been called on a Tab,
\* ExpireAfter stays set and stays before now; a call of Start or ForceStart
\* that is made after it never ranges over the jobs and dispatches nothing:
\* the step of its loop at its first test of ExpireAfter is its return.
StoppingIsPermanent ==
    /\ [][(tab[1].ExpireAfter # nil) => (tab'[1].ExpireAfter # nil)]_vars
    /\ []((tab[1].ExpireAfter # nil) => tab[1].ExpireAfter[1] < now)
    /\ [](second.stopped =>
            (second.pc \in {"wait", "check", "returned"} /\ second.evaluated = <<>>))
    /\ [][(second.stopped /\ second.pc = "check" /\ second'.pc # "check")
             => (second'.pc = "returned" /\ goroutines' = goroutines)]_vars

\* A ForceStart or Start called after StopSoon, on a Tab whose first job runs
\* every minute, has returned without an evaluation.
StoppingIsPermanentWitness ==
    /\ second.stopped
    /\ second.pc = "returned"
    /\ second.evaluated = <<>>
    /\ Len(tab[1].Jobs) >= 1
    /\ tab[1].Jobs[1].Pattern = WildcardPattern
    /\ pc = "returned"

=============================================================================
